---------------------------- MODULE Spec2Model ----------------------------
(***************************************************************************)
(* Model of ipfs-swarm-cli, the private-swarm installer: the init command  *)
(* (options or prompts, validation, the plan of steps and its execution    *)
(* loop) and the commands start, stop, status, info, test and clean,       *)
(* together with the files and external programs they act on: the          *)
(* persisted configuration record                                          *)
(* ~/.ipfs-swarm/config.json, the swarm key ~/.ipfs-swarm/swarm.key, the   *)
(* Kubo data directory ~/.ipfs, the Kubo daemon and the Tailscale client.  *)
(*                                                                         *)
(* Texts that the code computes with (port numbers typed or passed as      *)
(* options, multiaddrs) are sequences, so that parseInt, the JavaScript    *)
(* `+` operator, template rendering and String.includes are computed the   *)
(* way the code computes them.                                             *)
(***************************************************************************)
EXTENDS Integers, Sequences, FiniteSets, TLC

(***************************************************************************)
(* Bounds of the model.                                                    *)
(***************************************************************************)
\* number of swarm keys that are generated in one behaviour; every draw of
\* crypto.randomBytes(32) yields bytes not drawn before
MaxKeys == 2
\* number of external commands that fail in one behaviour
MaxFailures == 1

(***************************************************************************)
(* JavaScript values.                                                      *)
(***************************************************************************)
\* null and undefined in a string-valued field
Null == "#null"
Undef == "#undefined"
\* null and undefined in a multiaddr-valued field (a sequence of segments)
NullA == <<"#null">>
UndefA == <<"#undefined">>

\* JavaScript truthiness of a string-valued field
Truthy(x) == x \notin {Null, Undef, ""}
\* JavaScript truthiness of a multiaddr-valued field
TruthyA(a) == a \notin {NullA, UndefA, <<>>}

Digits == <<"0", "1", "2", "3", "4", "5", "6", "7", "8", "9">>
IsDigit(c) == \E i \in 1..10 : Digits[i] = c
DigitVal(c) == (CHOOSE i \in 1..10 : Digits[i] = c) - 1

\* a number value, a string value, NaN and null, as basePort can hold them
Num(n) == [t |-> "num", n |-> n, s |-> <<>>]
Str(s) == [t |-> "str", n |-> 0, s |-> s]
NaN == [t |-> "nan", n |-> 0, s |-> <<>>]
NullV == [t |-> "null", n |-> 0, s |-> <<>>]

\* value of a digit text, most significant digit first
RECURSIVE DigitsVal(_)
DigitsVal(s) ==
  IF s = <<>> THEN 0
  ELSE 10 * DigitsVal(SubSeq(s, 1, Len(s) - 1)) + DigitVal(s[Len(s)])

\* the longest prefix of s made of digits
RECURSIVE LeadingDigits(_)
LeadingDigits(s) ==
  IF s = <<>> \/ ~IsDigit(Head(s)) THEN <<>>
  ELSE <<Head(s)>> \o LeadingDigits(Tail(s))

\* parseInt(text): the leading digits as a number, NaN when there are none
ParseInt(s) ==
  IF LeadingDigits(s) = <<>> THEN NaN ELSE Num(DigitsVal(LeadingDigits(s)))

\* decimal text of a natural number, as String(n) renders it
RECURSIVE NatText(_)
NatText(n) ==
  IF n < 10 THEN <<Digits[n + 1]>>
  ELSE NatText(n \div 10) \o <<Digits[(n % 10) + 1]>>

\* String(v), as a template literal `${v}` renders a value
Render(v) ==
  CASE v.t = "num" -> NatText(v.n)
    [] v.t = "str" -> v.s
    [] v.t = "nan" -> <<"N", "a", "N">>
    [] OTHER -> <<"n", "u", "l", "l">>

\* Number(v), the numeric coercion used by isNaN and by the comparisons:
\* a text coerces to its value when it is all digits ("" coerces to 0)
ToNumber(v) ==
  CASE v.t = "num" -> v
    [] v.t = "str" -> IF LeadingDigits(v.s) = v.s THEN Num(DigitsVal(v.s)) ELSE NaN
    [] v.t = "nan" -> NaN
    [] OTHER -> Num(0)

\* v + k for a number k: numeric addition unless v is a string, in which
\* case `+` concatenates the decimal text of k
JsPlus(v, k) ==
  CASE v.t = "num" -> Num(v.n + k)
    [] v.t = "str" -> Str(v.s \o NatText(k))
    [] v.t = "nan" -> NaN
    [] OTHER -> Num(k)

\* JSON.parse(JSON.stringify(v)) of a basePort value: NaN is written as null
JsonValue(v) == IF v.t = "nan" THEN NullV ELSE v

(***************************************************************************)
(* Paths, addresses and the persisted record.                              *)
(***************************************************************************)
\* SWARM_KEY_PATH, a key file the user holds, and a path naming no file
CanonKey == "~/.ipfs-swarm/swarm.key"
UserKey == "/tmp/swarm.key"
MissingKey == "/tmp/nokey"

\* a multiaddr with a peer-identity segment, one without, and a peer that
\* `ipfs init` pre-seeds in the bootstrap list
AddrPeer == <<"ip4", "10.0.0.1", "tcp", "4001", "p2p", "ABC123">>
AddrNoPeer == <<"ip4", "10.0.0.1", "tcp", "4001">>
PublicPeer == <<"dnsaddr", "bootstrap.libp2p.io", "p2p", "QmPublic">>

\* addr.includes('/p2p/'): a p2p segment that is followed by another one
IncludesP2p(a) == \E i \in 1..(Len(a) - 1) : a[i] = "p2p"

\* the address the Tailscale client reports
TailscaleAddr == "100.64.0.1"

\* the record loadCfg writes when there is none
DefaultCfg ==
  [nodeType |-> "bootstrap", networkType |-> "normal", swarmKey |-> Null,
   basePort |-> Num(4001), bootstrapMultiaddr |-> NullA, nodeId |-> Null,
   lastStarted |-> 0, tailscaleIP |-> Null, swarmKeyPath |-> Undef]

\* JSON.parse(JSON.stringify(o)): an undefined property is left out and reads
\* back as undefined, NaN is written as null
JsonRecord(o) == [o EXCEPT !.basePort = JsonValue(o.basePort)]

(***************************************************************************)
(* The swarm key files.  A key file's content is its three lines; <<>> is  *)
(* a file that does not exist.                                             *)
(***************************************************************************)
NoFile == <<>>
KeyText(k) == <<"/key/swarm/psk/1.0.0/", "/base16/", k>>
\* content of the key file the user holds (a copy of some bootstrap's key)
UserKeyText == KeyText(0)

\* exists(p) for the paths a swarm key is looked for at
Exists(p, kf) ==
  CASE p = CanonKey -> kf # NoFile
    [] p = UserKey -> TRUE
    [] OTHER -> FALSE

\* content of the file at p
ReadFile(p, kf) == IF p = CanonKey THEN kf ELSE UserKeyText

\* generateSwarmKey: the content of SWARM_KEY_PATH afterwards, when the random
\* bytes drawn are k
GenerateAlways(kf, k) == KeyText(k)
GenerateSwarmKey(kf, k) == IF Exists(CanonKey, kf) THEN kf ELSE KeyText(k)

(***************************************************************************)
(* The Kubo data directory ~/.ipfs and the commands issued to Kubo.        *)
(***************************************************************************)
\* the settings of the data directory whose value depends on the record
ConfKeys == {"Addresses.Swarm", "Addresses.API", "Addresses.Gateway"}

\* no data directory, and the directory `ipfs init` creates: its own
\* settings and the public bootstrap peers
NoRepo ==
  [inited |-> FALSE, key |-> NoFile, conf |-> [k \in ConfKeys |-> <<>>],
   boot |-> {}]
FreshRepo ==
  [inited |-> TRUE, key |-> NoFile,
   conf |-> [k \in ConfKeys |-> <<"default">>], boot |-> {PublicPeer}]

\* an external command: the program and subcommand, the setting or flag it
\* names, and its value
Cmd(op, key, val) == [op |-> op, key |-> key, val |-> val]

\* configureIpfs, the settings: discovery, routing, AutoTLS, the connection
\* manager and the three addresses derived from basePort
ConfigSettings(c) ==
  << Cmd("ipfs config", "Discovery.MDNS.Enabled", <<"false">>),
     Cmd("ipfs config", "Routing.Type", <<"dht">>),
     Cmd("ipfs config", "AutoTLS", <<"{\"Enabled\":false}">>),
     Cmd("ipfs config", "Swarm.ConnMgr", <<"{\"LowWater\":10,\"HighWater\":100}">>),
     Cmd("ipfs config", "Addresses.Swarm",
         <<"[\"/ip4/0.0.0.0/tcp/">> \o Render(c.basePort)
           \o <<"\",\"/ip6/::/tcp/">> \o Render(c.basePort) \o <<"\"]">>),
     Cmd("ipfs config", "Addresses.API",
         <<"/ip4/127.0.0.1/tcp/">> \o Render(JsPlus(c.basePort, 1000))),
     Cmd("ipfs config", "Addresses.Gateway",
         <<"/ip4/127.0.0.1/tcp/">> \o Render(JsPlus(c.basePort, 4080))) >>

\* the Node Configurator: the commands configureIpfs issues for a record
ConfigNoClear(c) ==
  ConfigSettings(c)
  \o (IF c.nodeType = "regular" /\ TruthyA(c.bootstrapMultiaddr)
      THEN << Cmd("ipfs bootstrap add", "", c.bootstrapMultiaddr) >>
      ELSE << >>)
ConfigAddAlways(c) ==
  ConfigSettings(c)
  \o << Cmd("ipfs bootstrap rm", "--all", <<>>) >>
  \o (IF TruthyA(c.bootstrapMultiaddr)
      THEN << Cmd("ipfs bootstrap add", "", c.bootstrapMultiaddr) >>
      ELSE << >>)
ConfigCommands(c) ==
  ConfigSettings(c)
  \o << Cmd("ipfs bootstrap rm", "--all", <<>>) >>
  \o (IF c.nodeType = "regular" /\ TruthyA(c.bootstrapMultiaddr)
      THEN << Cmd("ipfs bootstrap add", "", c.bootstrapMultiaddr) >>
      ELSE << >>)

\* what one command does to the data directory
ApplyCmd(r, c) ==
  CASE c.op = "ipfs config" /\ c.key \in ConfKeys ->
         [r EXCEPT !.conf[c.key] = c.val]
    [] c.op = "ipfs bootstrap rm" -> [r EXCEPT !.boot = {}]
    [] c.op = "ipfs bootstrap add" -> [r EXCEPT !.boot = @ \cup {c.val}]
    [] OTHER -> r

\* the data directory after the first n commands of cs
RECURSIVE ApplyCmds(_, _, _)
ApplyCmds(r, cs, n) ==
  IF n = 0 THEN r ELSE ApplyCmd(ApplyCmds(r, cs, n - 1), cs[n])

(***************************************************************************)
(* init: options, prompts, validation and the plan of steps.               *)
(***************************************************************************)
\* texts given to --port: the default, another port, a privileged port and
\* a text that is no number
PortDefault == <<"4", "0", "0", "1">>
PortOther == <<"5", "0", "0", "1">>
PortLow == <<"8", "0">>
PortWord == <<"a", "b", "c">>

\* the command lines of init, as commander's options object: with
\* --bootstrap, with --regular, and with neither role flag
BootstrapOptions ==
  [bootstrap : {TRUE}, regular : {FALSE}, tailscale : BOOLEAN,
   swarmKey : {Undef}, bootstrapAddr : {UndefA},
   port : {PortDefault, PortLow}]
RegularOptions ==
  [bootstrap : {FALSE}, regular : {TRUE}, tailscale : BOOLEAN,
   swarmKey : {Undef, UserKey, MissingKey},
   bootstrapAddr : {UndefA, AddrNoPeer, AddrPeer},
   port : {PortDefault}]
PromptOptions ==
  [bootstrap : {FALSE}, regular : {FALSE}, tailscale : {FALSE},
   swarmKey : {Undef}, bootstrapAddr : {UndefA},
   port : {PortOther}]

\* what the user types at the prompts; an empty basePort is the Enter key,
\* which takes the default
PromptAnswers ==
  [nodeType : {"bootstrap"}, networkType : {"normal", "tailscale"},
   basePort : {<<>>, PortOther, PortLow, PortWord},
   swarmKeyPath : {""}, bootstrapMultiaddr : {<<>>}]
  \cup
  [nodeType : {"regular"}, networkType : {"normal", "tailscale"},
   basePort : {<<>>, PortOther, PortLow, PortWord},
   swarmKeyPath : {"", UserKey, MissingKey},
   bootstrapMultiaddr : {<<>>, AddrNoPeer, AddrPeer}]

\* answers of a command-line invocation, which prompts for nothing
NoAnswers ==
  [nodeType |-> "bootstrap", networkType |-> "normal", basePort |-> <<>>,
   swarmKeyPath |-> "", bootstrapMultiaddr |-> <<>>]

\* interactive mode is entered when neither role flag is given
Interactive(o) == ~o.bootstrap /\ ~o.regular

\* the value the basePort prompt yields: the typed text, or the default
PromptPort(a, loaded) ==
  IF a.basePort = <<>> THEN loaded.basePort ELSE Str(a.basePort)

\* validate of the basePort prompt: !isNaN(n) && n > 1024 && n < 65535
PortPromptValid(v) ==
  /\ ToNumber(v).t = "num"
  /\ ToNumber(v).n > 1024
  /\ ToNumber(v).n < 65535

\* the prompts return only answers their validate functions accept
PromptsAccept(a, loaded, kf) ==
  /\ PortPromptValid(PromptPort(a, loaded))
  /\ IF a.nodeType = "regular"
     THEN /\ a.swarmKeyPath # "" /\ Exists(a.swarmKeyPath, kf)
          /\ a.bootstrapMultiaddr # <<>> /\ IncludesP2p(a.bootstrapMultiaddr)
     ELSE a.swarmKeyPath = "" /\ a.bootstrapMultiaddr = <<>>

\* Object.assign(cfg, answers): the record init works on
AssignIdentity(loaded, o, a) == [loaded EXCEPT !.nodeId = "QmInit"]
Assign(loaded, o, a) ==
  IF Interactive(o)
  THEN [loaded EXCEPT
          !.nodeType = a.nodeType,
          !.networkType = a.networkType,
          !.basePort = PromptPort(a, loaded),
          !.swarmKeyPath = IF a.nodeType = "regular" THEN a.swarmKeyPath ELSE @,
          !.bootstrapMultiaddr =
             IF a.nodeType = "regular" THEN a.bootstrapMultiaddr ELSE @]
  ELSE [loaded EXCEPT
          !.nodeType = IF o.bootstrap THEN "bootstrap" ELSE "regular",
          !.networkType = IF o.tailscale THEN "tailscale" ELSE "normal",
          !.basePort = ParseInt(o.port),
          !.swarmKeyPath = o.swarmKey,
          !.bootstrapMultiaddr = o.bootstrapAddr]

\* the validation of init: "ok", or the check that fails
ValidateNothing(c, kf) == "ok"
ValidateCfg(c, kf) ==
  IF c.nodeType = "regular"
  THEN IF ~Truthy(c.swarmKeyPath) \/ ~Exists(c.swarmKeyPath, kf) THEN "key"
       ELSE IF ~TruthyA(c.bootstrapMultiaddr) THEN "addr"
       ELSE "ok"
  ELSE "ok"

\* the steps init pushes, in order
Plan(c) ==
  << "Installing required tools", "Installing Kubo",
     "Stopping existing daemon", "Initializing IPFS" >>
  \o (IF c.networkType = "tailscale" THEN << "Setting up Tailscale" >> ELSE << >>)
  \o (IF c.nodeType = "bootstrap"
      THEN << "Generating swarm key" >>
      ELSE << "Setting swarm key" >>
           \o (IF c.networkType = "tailscale" /\ TruthyA(c.bootstrapMultiaddr)
               THEN << "Testing connection to bootstrap" >> ELSE << >>))
  \o << "Configuring IPFS" >>

(***************************************************************************)
(* State.                                                                  *)
(***************************************************************************)
VARIABLES
  configDir,      \* CONFIG_DIR exists
  configThere,    \* CONFIG (config.json) exists
  configFile,     \* the record in config.json
  swarmKeyFile,   \* content of SWARM_KEY_PATH, NoFile when absent
  repo,           \* the Kubo data directory ~/.ipfs
  toolsInstalled, \* wget, curl, net-tools and openssl are on the PATH
  kuboInstalled,  \* /usr/local/bin/ipfs runs
  tailscale,      \* the Tailscale client: installed, running
  daemon,         \* the Kubo daemon answers `ipfs swarm peers`
  pc,             \* "idle", "init" (executing the plan), "exited" (the
                  \* init process is gone), "start" (polling for the
                  \* daemon) or "ended" (the process of another command
                  \* is gone)
  inv,            \* options and prompt answers of the current invocation
  cfg,            \* the in-memory record of the current invocation
  steps,          \* the plan of the current init
  idx,            \* position in the plan
  res,            \* how the last invocation ended
  cmds,           \* external commands issued by the current invocation
  ran,            \* plan steps the current invocation entered
  pre,            \* the files as the current invocation found them, or
                  \* as the first attempt found them when it is a retry
  chain,          \* "again": same command line as the invocation before,
                  \* which succeeded; "retry": same command line as the
                  \* invocation before, which a step failure ended
  keysMade,       \* number of swarm keys generated so far
  failures,       \* number of external commands that have failed in
                  \* plan steps so far
  elapsed,        \* milliseconds since waitForDaemon took startTime
  other           \* the process state of a second invocation, while the first runs

vars ==
  << configDir, configThere, configFile, swarmKeyFile, repo, toolsInstalled,
     kuboInstalled, tailscale, daemon, pc, inv, cfg, steps, idx, res, cmds,
     ran, pre, chain, keysMade, failures, elapsed, other >>

files == << configDir, configThere, configFile, swarmKeyFile, keysMade >>
programs == << toolsInstalled, kuboInstalled, tailscale >>
plan == << inv, cfg, steps >>

\* the configuration directory as an invocation finds it
Snapshot ==
  [configDir |-> configDir, configThere |-> configThere,
   configFile |-> configFile, swarmKeyFile |-> swarmKeyFile]

NoSnapshot ==
  [configDir |-> FALSE, configThere |-> FALSE, configFile |-> DefaultCfg,
   swarmKeyFile |-> NoFile]

NoResult == [exit |-> -1, why |-> "none", step |-> "", cause |-> "none"]

NoInvocation ==
  [opts |-> [bootstrap |-> FALSE, regular |-> FALSE, tailscale |-> FALSE,
             swarmKey |-> Undef, bootstrapAddr |-> UndefA,
             port |-> PortDefault],
   ans |-> NoAnswers]

\* what a process holds of its invocation: where it is, its in-memory
\* record, its plan and what is kept of what it did
Process ==
  [pc |-> pc, inv |-> inv, cfg |-> cfg, steps |-> steps, idx |-> idx,
   res |-> res, cmds |-> cmds, ran |-> ran, pre |-> pre, chain |-> chain,
   elapsed |-> elapsed]

Init ==
  /\ configDir = FALSE
  /\ configThere = FALSE
  /\ configFile = DefaultCfg
  /\ swarmKeyFile = NoFile
  /\ repo = NoRepo
  /\ toolsInstalled = FALSE
  /\ kuboInstalled = FALSE
  /\ tailscale = [installed |-> FALSE, running |-> FALSE]
  /\ daemon = FALSE
  /\ pc = "idle"
  /\ inv = NoInvocation
  /\ cfg = DefaultCfg
  /\ steps = << >>
  /\ idx = 0
  /\ res = NoResult
  /\ cmds = << >>
  /\ ran = << >>
  /\ pre = NoSnapshot
  /\ chain = "none"
  /\ keysMade = 0
  /\ failures = 0
  /\ elapsed = 0
  /\ other = Process

(***************************************************************************)
(* init: loadCfg, the options or the prompts, Object.assign, validation,   *)
(* and the plan.                                                           *)
(***************************************************************************)
\* loadCfg: the record read, after the default one was written if needed
LoadCfg == IF configThere THEN configFile ELSE JsonRecord(DefaultCfg)

\* the invocations of init that can be made in the current state
Invocations ==
  [opts : BootstrapOptions \cup RegularOptions, ans : {NoAnswers}]
  \cup
  [opts : PromptOptions,
   ans : { a \in PromptAnswers : PromptsAccept(a, LoadCfg, swarmKeyFile) }]

\* the action of the init command up to the execution loop, for the
\* invocation i; kind and snap are the bookkeeping of chain and pre
InitAction(i, kind, snap) ==
  /\ LET c == Assign(LoadCfg, i.opts, i.ans)
         v == ValidateCfg(c, swarmKeyFile)
     IN /\ inv' = i
        /\ cfg' = c
        /\ IF v = "ok"
           THEN /\ pc' = "init"
                /\ steps' = Plan(c)
                /\ idx' = 1
                /\ res' = NoResult
           ELSE /\ pc' = "exited"
                /\ steps' = << >>
                /\ idx' = 0
                /\ res' = [exit |-> 1, why |-> "validation", step |-> v,
                           cause |-> "input"]
  /\ chain' = kind
  /\ pre' = snap
  /\ configDir' = TRUE
  /\ configThere' = TRUE
  /\ configFile' = LoadCfg
  /\ cmds' = << >>
  /\ ran' = << >>
  /\ UNCHANGED << swarmKeyFile, keysMade, repo, programs, daemon, failures,
                  elapsed, other >>

\* init is invoked with some command line
InitBegin ==
  /\ pc = "idle"
  /\ \E i \in Invocations : InitAction(i, "none", Snapshot)

\* init is invoked again with the command line, and the answers, of the
\* invocation that has just ended
InitAgain ==
  /\ pc = "exited"
  /\ res.why \in {"ok", "step"}
  /\ inv \in Invocations
  /\ IF res.why = "ok"
     THEN InitAction(inv, "again", Snapshot)
     ELSE InitAction(inv, "retry", pre)

\* the process is gone: nothing of it is left but the files and the
\* programs it installed, started or stopped
Return ==
  /\ pc \in {"exited", "ended"}
  /\ pc' = "idle"
  /\ inv' = NoInvocation
  /\ cfg' = DefaultCfg
  /\ steps' = << >>
  /\ idx' = 0
  /\ res' = NoResult
  /\ cmds' = << >>
  /\ ran' = << >>
  /\ pre' = NoSnapshot
  /\ chain' = "none"
  /\ elapsed' = 0
  /\ other' = other
  /\ UNCHANGED << files, repo, programs, daemon, failures >>

(***************************************************************************)
(* init: the execution loop.  Each plan step is one action; a step that    *)
(* throws ends the invocation with process.exit(1).                        *)
(***************************************************************************)
\* the loop is at step s
AtStep(s) == pc = "init" /\ idx \in 1..Len(steps) /\ steps[idx] = s

\* spin.succeed(): on to the next step, or out of the loop after the last
StepDone ==
  /\ failures' = failures
  /\ ran' = Append(ran, steps[idx])
  /\ IF idx = Len(steps)
     THEN /\ pc' = "exited"
          /\ idx' = idx
          /\ res' = [exit |-> 0, why |-> "ok", step |-> "", cause |-> "none"]
     ELSE /\ pc' = "init"
          /\ idx' = idx + 1
          /\ res' = res

\* catch (e): spin.fail, process.exit(1)
StepFailGoesOn(cause) ==
  /\ cause = "external" => failures < MaxFailures
  /\ failures' = IF cause = "external" THEN failures + 1 ELSE failures
  /\ ran' = Append(ran, steps[idx])
  /\ pc' = IF idx = Len(steps) THEN "exited" ELSE "init"
  /\ idx' = IF idx = Len(steps) THEN idx ELSE idx + 1
  /\ res' = [exit |-> 1, why |-> "step", step |-> steps[idx], cause |-> cause]
StepFail(cause) ==
  /\ cause = "external" => failures < MaxFailures
  /\ failures' = IF cause = "external" THEN failures + 1 ELSE failures
  /\ ran' = Append(ran, steps[idx])
  /\ pc' = "exited"
  /\ idx' = idx
  /\ res' = [exit |-> 1, why |-> "step", step |-> steps[idx], cause |-> cause]

\* saveCfg(o)
SaveCfgMerged(o) ==
  /\ configFile' = [JsonRecord(o) EXCEPT
                      !.swarmKey = IF Truthy(configFile.swarmKey)
                                   THEN configFile.swarmKey ELSE @]
  /\ configThere' = TRUE
  /\ configDir' = configDir
SaveCfg(o) ==
  /\ configFile' = JsonRecord(o)
  /\ configThere' = TRUE
  /\ configDir' = configDir

\* installTools(includeTailscale)
StepInstallTools ==
  /\ AtStep("Installing required tools")
  /\ LET incl == cfg.networkType = "tailscale"
         probe == << Cmd("which", "wget curl net-tools openssl", <<>>) >>
         apt == << Cmd("apt-get install", "missing tools", <<>>) >>
         tsi == << Cmd("sh", "tailscale install.sh", <<>>) >>
     IN IF toolsInstalled /\ (~incl \/ tailscale.installed)
        THEN /\ cmds' = cmds \o probe
             /\ StepDone
             /\ UNCHANGED << toolsInstalled, tailscale >>
        ELSE \E okTools, okTs \in BOOLEAN :
               LET needTools == ~toolsInstalled
                   toolsNow == toolsInstalled \/ okTools
                   needTs == toolsNow /\ incl /\ ~tailscale.installed
               IN /\ (~needTools => okTools)
                  /\ (~needTs => okTs)
                  /\ cmds' = cmds \o probe
                               \o (IF needTools THEN apt ELSE << >>)
                               \o (IF needTs THEN tsi ELSE << >>)
                  /\ toolsInstalled' = toolsNow
                  /\ tailscale' = [tailscale EXCEPT
                                     !.installed = @ \/ (needTs /\ okTs)]
                  /\ IF okTools /\ okTs THEN StepDone ELSE StepFail("external")
  /\ UNCHANGED << files, repo, kuboInstalled, daemon, plan, pre, chain, elapsed, other >>

\* installKubo
StepInstallKubo ==
  /\ AtStep("Installing Kubo")
  /\ LET probe == << Cmd("ipfs version", "", <<>>) >>
         get == << Cmd("wget", "kubo_v0.35.0", <<>>) >>
     IN IF kuboInstalled
        THEN /\ cmds' = cmds \o probe
             /\ StepDone
             /\ UNCHANGED kuboInstalled
        ELSE \E ok \in BOOLEAN :
               /\ cmds' = cmds \o probe \o get
               /\ kuboInstalled' = ok
               /\ IF ok THEN StepDone ELSE StepFail("external")
  /\ UNCHANGED << files, repo, toolsInstalled, tailscale, daemon, plan, pre, chain, elapsed, other >>

\* the wait at the end of killDaemon, setTimeout(resolve, 1000), recorded
\* among the commands at the place where it is waited out
SettleDelay == Cmd("setTimeout", "1000", <<>>)

\* killDaemon: `ipfs shutdown`, and `pkill -f "ipfs daemon"` with the settle
\* delay when the shutdown did not succeed.  graceful is the outcome of the
\* shutdown; it can succeed only when a daemon answers.
KillCmds(graceful) ==
  << Cmd("ipfs shutdown", "", <<>>) >>
  \o (IF graceful THEN << >>
      ELSE << Cmd("pkill", "-f ipfs daemon", <<>>), SettleDelay >>)

\* the outcomes of killDaemon in the current state.  execSilent joins the
\* arguments with spaces and hands the line to the shell, so the forceful
\* command runs as `pkill -f ipfs daemon`: a pkill that takes one pattern
\* only (procps) exits 2 and signals nothing, one that takes several
\* patterns ends the daemon; forced tells which.  killDaemon looks at
\* neither result.
KillOutcomes ==
  { o \in [graceful : BOOLEAN, forced : BOOLEAN] :
      /\ o.graceful => daemon
      /\ o.forced => daemon /\ ~o.graceful }

\* the daemon after killDaemon with outcome o
KillDaemon(d, o) == d /\ ~o.graceful /\ ~o.forced

\* the step that stops a running daemon; its catch swallows every error
StepStopDaemon ==
  /\ AtStep("Stopping existing daemon")
  /\ \E o \in KillOutcomes :
       /\ cmds' = cmds \o KillCmds(o.graceful)
       /\ daemon' = KillDaemon(daemon, o)
  /\ StepDone
  /\ UNCHANGED << files, repo, programs, plan, pre, chain, elapsed, other >>

\* isIpfsInitialized: ~/.ipfs/config exists
InitializedNever(r) == FALSE
IsIpfsInitialized(r) == r.inited

\* initializeIpfs: `ipfs init --profile=server` unless the data directory is
\* initialized; Kubo refuses to initialize a directory that has a config
StepInitializeIpfs ==
  /\ AtStep("Initializing IPFS")
  /\ IF IsIpfsInitialized(repo)
     THEN /\ StepDone
          /\ UNCHANGED << repo, cmds >>
     ELSE /\ cmds' = Append(cmds, Cmd("ipfs init", "--profile=server", <<>>))
          /\ IF repo.inited
             THEN /\ StepFail("internal")
                  /\ UNCHANGED repo
             ELSE \E ok \in BOOLEAN :
                    /\ repo' = IF ok THEN FreshRepo ELSE repo
                    /\ IF ok THEN StepDone ELSE StepFail("external")
  /\ UNCHANGED << files, programs, daemon, plan, pre, chain, elapsed, other >>

\* setupTailscale: `sudo tailscale up` unless the client is running, the
\* confirm prompt when that fails, and the final status check.  up is the
\* outcome of the command, confirmed the answer to the prompt, manual says
\* whether the user brought the client up before answering.
StepSetupTailscale ==
  /\ AtStep("Setting up Tailscale")
  /\ \E up, confirmed, manual \in BOOLEAN :
       LET status == << Cmd("tailscale status", "--json", <<>>) >>
           upCmd == << Cmd("sudo tailscale up", "", <<>>) >>
           asked == ~tailscale.running /\ ~up
           running == tailscale.running \/ up \/ (asked /\ manual)
       IN /\ (tailscale.running => up /\ confirmed /\ manual)
          /\ (up => confirmed /\ manual)
          /\ (~confirmed => ~manual)
          /\ tailscale' = [tailscale EXCEPT !.running = running]
          /\ IF asked /\ ~confirmed
             THEN /\ cmds' = cmds \o status \o upCmd
                  /\ StepFail("external")
                  /\ UNCHANGED << files, cfg >>
             ELSE /\ cmds' = cmds \o status
                               \o (IF tailscale.running THEN << >> ELSE upCmd)
                               \o status
                  /\ IF ~running
                     THEN /\ StepFail("external")
                          /\ UNCHANGED << files, cfg >>
                     ELSE /\ cfg' = [cfg EXCEPT !.tailscaleIP = TailscaleAddr]
                          /\ SaveCfg(cfg')
                          /\ StepDone
                          /\ UNCHANGED << swarmKeyFile, keysMade >>
  /\ UNCHANGED << repo, toolsInstalled, kuboInstalled, daemon, inv, steps, pre, chain, elapsed, other >>

\* the key step of a bootstrap node: generateSwarmKey, saveCfg
StepGenerateKey ==
  /\ AtStep("Generating swarm key")
  /\ swarmKeyFile' = GenerateSwarmKey(swarmKeyFile, keysMade + 1)
  /\ swarmKeyFile' # swarmKeyFile => keysMade < MaxKeys
  /\ keysMade' = IF swarmKeyFile' # swarmKeyFile THEN keysMade + 1 ELSE keysMade
  /\ cfg' = [cfg EXCEPT !.swarmKey = CanonKey]
  /\ SaveCfg(cfg')
  /\ StepDone
  /\ UNCHANGED << repo, programs, daemon, inv, steps, cmds, pre, chain, elapsed, other >>

\* the key step of a regular node: the given path, saveCfg
StepSetKey ==
  /\ AtStep("Setting swarm key")
  /\ cfg' = [cfg EXCEPT !.swarmKey = cfg.swarmKeyPath]
  /\ SaveCfg(cfg')
  /\ StepDone
  /\ UNCHANGED << swarmKeyFile, keysMade, repo, programs, daemon, inv, steps, cmds, pre, chain, elapsed, other >>

\* bootstrapMultiaddr.match(/\/ip4\/([^\/]+)\//): an ip4 segment, its
\* value, and something after it
MatchesIp4(a) == \E i \in 1..(Len(a) - 2) : a[i] = "ip4"

\* testTailscaleConnection: a ping whose result is only printed
StepTestConnection ==
  /\ AtStep("Testing connection to bootstrap")
  /\ cmds' = IF MatchesIp4(cfg.bootstrapMultiaddr)
             THEN Append(cmds, Cmd("ping", "-c 3 -W 3", cfg.bootstrapMultiaddr))
             ELSE cmds
  /\ StepDone
  /\ UNCHANGED << files, repo, programs, daemon, plan, pre, chain, elapsed, other >>

\* configureIpfs: installSwarmKey when cfg.swarmKey is set, then the
\* commands of the Node Configurator one by one; the first n succeed and,
\* when n is short of the list, the next one exits non-zero
StepConfigureIpfs ==
  /\ AtStep("Configuring IPFS")
  /\ LET cs == ConfigCommands(cfg)
         hasKey == Truthy(cfg.swarmKey)
     IN IF hasKey /\ ~Exists(cfg.swarmKey, swarmKeyFile)
        THEN /\ StepFail("internal")
             /\ UNCHANGED << repo, cmds >>
        ELSE \E n \in 0..Len(cs) :
               LET keyed == IF hasKey
                            THEN [repo EXCEPT
                                    !.key = ReadFile(cfg.swarmKey, swarmKeyFile)]
                            ELSE repo
               IN /\ repo' = ApplyCmds(keyed, cs, n)
                  /\ cmds' = cmds \o SubSeq(cs, 1, IF n < Len(cs) THEN n + 1 ELSE n)
                  /\ IF n = Len(cs) THEN StepDone ELSE StepFail("external")
  /\ UNCHANGED << files, programs, daemon, plan, pre, chain, elapsed, other >>

(***************************************************************************)
(* start, stop, status, info, test and clean.  Each is one action, but for *)
(* start, whose polling loop is an action per probe.                       *)
(***************************************************************************)
\* the identity `ipfs id` reports
PeerIdent == "QmSelf"

\* what the commands print when they end
MsgNoTailscale == "Tailscale is not running"
MsgAlreadyRunning == "IPFS daemon is already running"
MsgFailedToStart == "Daemon failed to start"
MsgStarted == "IPFS daemon started successfully"
MsgSpawnError == "Error: spawn ipfs ENOENT"
MsgStopped == "Stopping IPFS daemon"
MsgRunning == "IPFS daemon is running"
MsgNotRunning == "IPFS daemon is not running"
MsgInfo == "Node Configuration:"
MsgTestOk == "Test successful!"
MsgTestFailed == "Failed to add file"
MsgCancelled == "Cleanup cancelled"
MsgCleaned == "Cleanup complete"
MsgRmFailed == "Command failed: rm -rf"

\* waitForDaemon(20000) and the delay after a probe, in milliseconds
StartMaxWait == 20000
ProbeInterval == 1000

\* the time a probe of the daemon can take, in milliseconds
ProbeDurations == {0, ProbeInterval}

\* new Date().toISOString(): a time stamp that the record does not hold
NewStamp(old) == IF old = 1 THEN 2 ELSE 1

\* isDaemonRunning: `ipfs swarm peers` succeeds when the daemon d answers
ProbeCmd == Cmd("ipfs swarm peers", "", <<>>)
IsDaemonRunningNever(d) == FALSE
IsDaemonRunning(d) == d

\* getTailscaleStatus: `tailscale status --json` of the client t, of which
\* the commands use the running field
StatusCmd == Cmd("tailscale status", "--json", <<>>)
StatusAlwaysRunning(t) == [running |-> TRUE]
GetTailscaleStatus(t) == [running |-> t.installed /\ t.running]

\* the condition of the loop of waitForDaemon after e milliseconds
LoopGoesOnLate(e) == e <= StartMaxWait
LoopGoesOn(e) == e < StartMaxWait

\* the answers to the confirm prompt of clean, whose default is false
CleanAnswers == {"yes", "no", "default"}
ConfirmDefaultYes(a) == a # "no"
Confirm(a) == a = "yes"

\* clean gets to the removal of CONFIG_DIR when the removal of the data
\* directory has not thrown and CONFIG_DIR exists
RemovesConfigAnyway(dirThere, rmData) == dirThere
RemovesConfig(dirThere, rmData) == dirThere /\ rmData

\* the process of a command other than init starts: c is its in-memory
\* record and snap what is kept of the files it found
Command(c, snap) ==
  /\ pc = "idle"
  /\ inv' = NoInvocation
  /\ cfg' = c
  /\ steps' = << >>
  /\ idx' = 0
  /\ ran' = << >>
  /\ chain' = "none"
  /\ pre' = snap
  /\ failures' = failures

\* the process of a command other than init is gone
Ended(exit, why, cause) ==
  /\ pc' = "ended"
  /\ res' = [exit |-> exit, why |-> why, step |-> "", cause |-> cause]

\* what loadCfg does to the configuration directory
LoadCfgResets ==
  /\ configDir' = TRUE
  /\ configThere' = TRUE
  /\ configFile' = JsonRecord(DefaultCfg)
  /\ UNCHANGED << swarmKeyFile, keysMade >>
LoadCfgWrites ==
  /\ configDir' = TRUE
  /\ configThere' = TRUE
  /\ configFile' = LoadCfg
  /\ UNCHANGED << swarmKeyFile, keysMade >>

\* start up to waitForDaemon: loadCfg, the Tailscale check, the probe,
\* killDaemon and the spawn of `ipfs daemon`.  Without an ipfs binary the
\* spawned child emits an error event that nothing listens to, and the
\* process dies of it with status 1.
StartBegin ==
  /\ Command(LoadCfg, Snapshot)
  /\ LoadCfgWrites
  /\ LET ts == LoadCfg.networkType = "tailscale"
         status == IF ts THEN << StatusCmd >> ELSE << >>
     IN IF ts /\ ~GetTailscaleStatus(tailscale).running
        THEN /\ cmds' = status
             /\ Ended(0, MsgNoTailscale, "overlay")
        ELSE IF IsDaemonRunning(daemon)
        THEN /\ cmds' = status \o << ProbeCmd >>
             /\ Ended(0, MsgAlreadyRunning, "none")
        ELSE /\ cmds' = status \o << ProbeCmd >> \o KillCmds(FALSE)
                          \o << Cmd("spawn", "ipfs daemon", <<>>) >>
             /\ IF kuboInstalled
                THEN pc' = "start" /\ res' = NoResult
                ELSE Ended(1, MsgSpawnError, "spawn")
  /\ elapsed' = 0
  /\ other' = other
  /\ UNCHANGED << repo, programs, daemon >>

\* one turn of the loop of waitForDaemon: the probe, which takes d
\* milliseconds, and the delay when it fails.  up says whether the daemon
\* answers by now; it cannot without an initialized data directory.  When
\* it answers, the rest of start follows: the time stamp, getPeerId, whose
\* outcome is okId, and saveCfg when the identity was obtained.
StartProbe ==
  /\ pc = "start"
  /\ LoopGoesOn(elapsed)
  /\ other' = other
  /\ \E up, okId \in BOOLEAN, d \in ProbeDurations :
       LET stamped == [cfg EXCEPT !.lastStarted = NewStamp(@)]
           named == [stamped EXCEPT !.nodeId = PeerIdent]
       IN /\ up => repo.inited
          /\ (~up => okId)
          /\ (up => d = 0)
          /\ daemon' = up
          /\ IF ~up
             THEN /\ cmds' = Append(cmds, ProbeCmd)
                  /\ elapsed' = elapsed + d + ProbeInterval
                  /\ UNCHANGED << pc, res, cfg, files >>
             ELSE /\ elapsed' = elapsed
                  /\ Ended(0, MsgStarted, IF okId THEN "none" ELSE "identity")
                  /\ IF okId
                     THEN /\ cmds' = cmds \o << ProbeCmd, Cmd("ipfs id", "", <<>>) >>
                          /\ cfg' = named
                          /\ SaveCfg(named)
                          /\ UNCHANGED << swarmKeyFile, keysMade >>
                     ELSE /\ cmds' = cmds \o << ProbeCmd, Cmd("ipfs id", "", <<>>),
                                               Cmd("ipfs id", "-f <id>", <<>>) >>
                          /\ cfg' = stamped
                          /\ UNCHANGED files
  /\ UNCHANGED << repo, programs, inv, steps, idx, ran, pre, chain, failures >>

\* the loop of waitForDaemon ends with maxWait used up: process.exit(1)
StartTimeoutReturns ==
  /\ pc = "start"
  /\ ~LoopGoesOn(elapsed)
  /\ Ended(0, MsgFailedToStart, "timeout")
  /\ UNCHANGED << files, repo, programs, daemon, plan, idx, cmds, ran, pre,
                  chain, failures, elapsed, other >>
StartTimeout ==
  /\ pc = "start"
  /\ ~LoopGoesOn(elapsed)
  /\ Ended(1, MsgFailedToStart, "timeout")
  /\ UNCHANGED << files, repo, programs, daemon, plan, idx, cmds, ran, pre,
                  chain, failures, elapsed, other >>

\* stop: killDaemon; the spinner succeeds whatever the commands did
Stop ==
  /\ Command(DefaultCfg, NoSnapshot)
  /\ \E o \in KillOutcomes :
       /\ cmds' = KillCmds(o.graceful)
       /\ daemon' = KillDaemon(daemon, o)
  /\ Ended(0, MsgStopped, "none")
  /\ UNCHANGED << files, repo, programs, elapsed, other >>

\* status: loadCfg, the probe, and what it prints of a running daemon
Status ==
  /\ Command(DefaultCfg, NoSnapshot)
  /\ LoadCfgWrites
  /\ IF IsDaemonRunning(daemon)
     THEN /\ cmds' = << ProbeCmd >>
                       \o (IF LoadCfg.networkType = "tailscale"
                           THEN << StatusCmd >> ELSE << >>)
                       \o << ProbeCmd, Cmd("ipfs id", "", <<>>) >>
          /\ Ended(0, MsgRunning, "none")
     ELSE /\ cmds' = << ProbeCmd >>
          /\ Ended(0, MsgNotRunning, "none")
  /\ UNCHANGED << repo, programs, daemon, elapsed, other >>

\* info: loadCfg, and the record printed
Info ==
  /\ Command(DefaultCfg, NoSnapshot)
  /\ LoadCfgWrites
  /\ cmds' = IF LoadCfg.networkType = "tailscale" THEN << StatusCmd >> ELSE << >>
  /\ Ended(0, MsgInfo, "none")
  /\ UNCHANGED << repo, programs, daemon, elapsed, other >>

\* test: loadCfg, the probe, and a file added to and read from the node
Test ==
  /\ Command(DefaultCfg, NoSnapshot)
  /\ LoadCfgWrites
  /\ IF IsDaemonRunning(daemon)
     THEN \E added \in BOOLEAN :
            /\ cmds' = << ProbeCmd, Cmd("ipfs add", "-q /tmp/ipfs-test.txt", <<>>) >>
                         \o (IF added THEN << Cmd("ipfs cat", "cid", <<>>) >>
                             ELSE << >>)
            /\ Ended(0, IF added THEN MsgTestOk ELSE MsgTestFailed, "none")
     ELSE /\ cmds' = << ProbeCmd >>
          /\ Ended(0, MsgNotRunning, "none")
  /\ UNCHANGED << repo, programs, daemon, elapsed, other >>

\* clean: the confirm prompt, killDaemon, `rm -rf` of the data directory
\* when it exists and then of CONFIG_DIR when it exists; a removal that
\* fails throws, and the catch only reports it.  a is the answer to the
\* prompt, rmData and rmConfig are the outcomes of the two removals.
CleanWith(a) ==
  /\ Command(DefaultCfg, NoSnapshot)
  /\ IF ~Confirm(a)
     THEN /\ cmds' = << >>
          /\ Ended(0, MsgCancelled, "none")
          /\ UNCHANGED << files, repo, daemon >>
     ELSE \E o \in KillOutcomes, rmData, rmConfig \in BOOLEAN :
            LET second == RemovesConfig(configDir, rmData)
            IN /\ (~repo.inited => rmData)
               /\ (~configDir => rmConfig)
               /\ daemon' = KillDaemon(daemon, o)
               /\ cmds' = KillCmds(o.graceful)
                    \o (IF repo.inited
                        THEN << Cmd("rm", "-rf ~/.ipfs", <<>>) >> ELSE << >>)
                    \o (IF second
                        THEN << Cmd("rm", "-rf ~/.ipfs-swarm", <<>>) >>
                        ELSE << >>)
               /\ repo' = IF rmData THEN NoRepo ELSE repo
               /\ IF second /\ rmConfig
                  THEN /\ configDir' = FALSE
                       /\ configThere' = FALSE
                       /\ configFile' = DefaultCfg
                       /\ swarmKeyFile' = NoFile
                       /\ keysMade' = keysMade
                  ELSE UNCHANGED files
               /\ IF rmData /\ rmConfig
                  THEN Ended(0, MsgCleaned, "none")
                  ELSE Ended(0, MsgRmFailed, "external")
  /\ UNCHANGED << programs, elapsed, other >>

\* clean, with some answer to its prompt
Clean == \E a \in CleanAnswers : CleanWith(a)

\* the Tailscale client goes down: `tailscale down`, a logout, a reboot
TailscaleDown ==
  /\ pc = "idle"
  /\ tailscale.running
  /\ tailscale' = [tailscale EXCEPT !.running = FALSE]
  /\ UNCHANGED << files, repo, toolsInstalled, kuboInstalled, daemon, pc, plan,
                  idx, res, cmds, ran, pre, chain, failures, elapsed, other >>

Next ==
  \/ InitBegin
  \/ InitAgain
  \/ Return
  \/ StepInstallTools
  \/ StepInstallKubo
  \/ StepStopDaemon
  \/ StepInitializeIpfs
  \/ StepSetupTailscale
  \/ StepGenerateKey
  \/ StepSetKey
  \/ StepTestConnection
  \/ StepConfigureIpfs

Spec == Init /\ [][Next]_vars

(***************************************************************************)
(* The life cycle of an installation: init from the command line, and the  *)
(* other commands, in any order.                                           *)
(***************************************************************************)
\* the command lines of init in the life cycle: either role on either
\* network, a regular node with or without its key
LifeInvocations ==
  [opts : [bootstrap : {TRUE}, regular : {FALSE}, tailscale : BOOLEAN,
           swarmKey : {Undef}, bootstrapAddr : {UndefA},
           port : {PortDefault}]
          \cup
          [bootstrap : {FALSE}, regular : {TRUE}, tailscale : BOOLEAN,
           swarmKey : {Undef, UserKey}, bootstrapAddr : {AddrPeer},
           port : {PortDefault}],
   ans : {NoAnswers}]

\* init is invoked with one of these command lines
LifeInit ==
  /\ pc = "idle"
  /\ \E i \in LifeInvocations : InitAction(i, "none", Snapshot)

LifeNext ==
  \/ LifeInit
  \/ Return
  \/ StepInstallTools
  \/ StepInstallKubo
  \/ StepStopDaemon
  \/ StepInitializeIpfs
  \/ StepSetupTailscale
  \/ StepGenerateKey
  \/ StepSetKey
  \/ StepTestConnection
  \/ StepConfigureIpfs
  \/ StartBegin
  \/ StartProbe
  \/ StartTimeout
  \/ Stop
  \/ Status
  \/ Info
  \/ Test
  \/ Clean
  \/ TailscaleDown

LifeSpec == Init /\ [][LifeNext]_vars

\* the event loop runs a process until it ends: the turns of the polling
\* loop of start are taken, and so is its exit
LiveSpec == LifeSpec /\ WF_vars(StartProbe) /\ WF_vars(StartTimeout)

(***************************************************************************)
(* Properties.                                                             *)
(***************************************************************************)
\* the invocation has ended with every plan step completed
Succeeded == pc = "exited" /\ res.exit = 0

\* the external commands of cmds with program and subcommand op
Issued(op) == { j \in 1..Len(cmds) : cmds[j].op = op }

\* the probes of waitForDaemon among the commands of a start: all but the
\* probe that start makes before it spawns the daemon
Probes ==
  { j \in Issued("ipfs swarm peers") : \E k \in 1..(j - 1) : cmds[k].op = "spawn" }

\* C1: an init that repeats the command line of the init before it, which
\* succeeded, and succeeds itself leaves config.json and the swarm key file
\* as the first run left them, and does not issue `ipfs init`.
C1_InitIdempotent ==
  (Succeeded /\ chain = "again") =>
     /\ configFile = pre.configFile
     /\ configThere = pre.configThere
     /\ swarmKeyFile = pre.swarmKeyFile
     /\ Issued("ipfs init") = {}

\* a second successful run of a bootstrap init, which reaches the key step
C1_Witness ==
  /\ Succeeded
  /\ chain = "again"
  /\ cfg.nodeType = "bootstrap"
  /\ "Generating swarm key" \in { ran[j] : j \in 1..Len(ran) }
  /\ "Initializing IPFS" \in { ran[j] : j \in 1..Len(ran) }

\* the record a run of init that no step fails leaves in config.json, when
\* it finds the files as in snap and is invoked as i
CleanRecord(snap, i) ==
  LET loaded == IF snap.configThere THEN snap.configFile
                ELSE JsonRecord(DefaultCfg)
      c == Assign(loaded, i.opts, i.ans)
  IN JsonRecord(
       [c EXCEPT
          !.tailscaleIP = IF c.networkType = "tailscale" THEN TailscaleAddr
                          ELSE @,
          !.swarmKey = IF c.nodeType = "bootstrap" THEN CanonKey
                       ELSE c.swarmKeyPath])

\* C2: an init that repeats the command line of an init a step failure
\* ended is not stopped by validation, and a step of it fails only when an
\* external command fails; when it succeeds, config.json holds the record a
\* run without failure writes from what the first attempt found, the swarm
\* key the first attempt found is unchanged (one exists for a bootstrap
\* node), and the data directory holds the key and exactly the settings and
\* bootstrap list the Node Configurator issues for that record.  Runs that
\* are no retry end the same way.
C2_RetryConverges ==
  /\ (pc = "exited" /\ chain = "retry") =>
        /\ res.why # "validation"
        /\ res.why = "step" => res.cause = "external"
  /\ Succeeded =>
        /\ configFile = CleanRecord(pre, inv)
        /\ configFile = JsonRecord(cfg)
        /\ pre.swarmKeyFile # NoFile => swarmKeyFile = pre.swarmKeyFile
        /\ cfg.nodeType = "bootstrap" => swarmKeyFile # NoFile
        /\ repo.inited
        /\ repo.key = ReadFile(cfg.swarmKey, swarmKeyFile)
        /\ LET issued == ApplyCmds(FreshRepo, ConfigCommands(cfg),
                                   Len(ConfigCommands(cfg)))
           IN /\ repo.conf = issued.conf
              /\ repo.boot = issued.boot

\* a retry that succeeded after the first attempt had saved the record and
\* then failed while configuring
C2_Witness ==
  /\ Succeeded
  /\ chain = "retry"
  /\ pre.configFile # configFile
  /\ cfg.nodeType = "regular"

\* C3: init --regular whose --swarm-key is missing or names no file ends
\* with the validation error, exit status 1, before any external command:
\* no step of the plan is entered.
C3_KeyValidatedFirst ==
  (pc # "idle" /\ inv.opts.regular /\ inv.opts.swarmKey \in {Undef, MissingKey}) =>
     /\ pc = "exited"
     /\ res = [exit |-> 1, why |-> "validation", step |-> "key",
               cause |-> "input"]
     /\ cmds = << >>
     /\ ran = << >>
     /\ steps = << >>

\* init --regular naming a file that does not exist, on a machine where an
\* earlier init has installed everything
C3_Witness ==
  /\ pc = "exited"
  /\ inv.opts.regular
  /\ inv.opts.swarmKey = MissingKey
  /\ inv.opts.bootstrapAddr = AddrPeer
  /\ res.why = "validation"
  /\ repo.inited

\* C4: an init that validation ends has changed nothing: the configuration
\* directory, config.json and the swarm key file are as the invocation
\* found them, also when it found no config.json.
C4_ValidationMutatesNothing ==
  (pc = "exited" /\ res.why = "validation" /\ chain = "none") =>
     Snapshot = pre

\* C5: an init for a regular node whose bootstrap address has no /p2p/
\* segment is ended by validation, from the command line as from the
\* prompts: no plan step is entered, and config.json never holds the address.
C5_AddressGrammarValidated ==
  (pc # "idle" /\ cfg.nodeType = "regular"
     /\ ~IncludesP2p(cfg.bootstrapMultiaddr)) =>
       /\ pc = "exited"
       /\ res.why = "validation"
       /\ ran = << >>
       /\ Issued("ipfs bootstrap add") = {}
       /\ configFile.bootstrapMultiaddr # cfg.bootstrapMultiaddr

\* the steps of ran before the last one, which all completed when the last
\* one failed
Completed == { ran[j] : j \in 1..(Len(ran) - 1) }

C7_RecordPersistedLast ==
  (res.why = "step" /\ chain # "retry" /\ pre.configThere) =>
     /\ configFile.nodeType = pre.configFile.nodeType
     /\ configFile.basePort = pre.configFile.basePort
     /\ configFile.swarmKey = pre.configFile.swarmKey
     /\ configFile.swarmKeyPath = pre.configFile.swarmKeyPath
     /\ configFile.bootstrapMultiaddr = pre.configFile.bootstrapMultiaddr

\* the base port of the invocation as a number
BasePortNumber == ToNumber(cfg.basePort).n

\* C8: whatever base port P init accepted, from --port or from the prompt,
\* the configuration commands issued set the swarm addresses to port P, the
\* API address to port P + 1000 and the gateway address to port P + 4080.
C8_DerivedPorts ==
  \A j \in Issued("ipfs config") :
     /\ cmds[j].key = "Addresses.Swarm" =>
          cmds[j].val = <<"[\"/ip4/0.0.0.0/tcp/">> \o NatText(BasePortNumber)
                          \o <<"\",\"/ip6/::/tcp/">> \o NatText(BasePortNumber)
                          \o <<"\"]">>
     /\ cmds[j].key = "Addresses.API" =>
          cmds[j].val = <<"/ip4/127.0.0.1/tcp/">>
                          \o NatText(BasePortNumber + 1000)
     /\ cmds[j].key = "Addresses.Gateway" =>
          cmds[j].val = <<"/ip4/127.0.0.1/tcp/">>
                          \o NatText(BasePortNumber + 4080)

\* the configuration step has been entered and has not failed
Configured ==
  /\ pc = "exited"
  /\ Len(ran) > 0
  /\ ran[Len(ran)] = "Configuring IPFS"
  /\ res.why # "step"

\* C9: a run of the Node Configurator that completes has issued
\* `ipfs bootstrap rm --all`; every `ipfs bootstrap add` comes after that
\* command and carries the bootstrapMultiaddr of the record; after a
\* successful init the bootstrap list of the data directory holds no
\* pre-seeded public peer, and nothing but that address.
C9_PublicPeersCleared ==
  /\ Configured => Issued("ipfs bootstrap rm") # {}
  /\ \A j \in Issued("ipfs bootstrap add") :
        /\ \E k \in Issued("ipfs bootstrap rm") : k < j
        /\ cmds[j].val = cfg.bootstrapMultiaddr
  /\ Succeeded =>
        /\ PublicPeer \notin repo.boot
        /\ repo.boot \subseteq {cfg.bootstrapMultiaddr}

\* the first successful init of a regular node on this machine: `ipfs init`
\* has seeded the public peer in this very invocation
C9_Witness ==
  /\ Succeeded
  /\ Issued("ipfs init") # {}
  /\ repo.boot = {AddrPeer}

\* C10: a run of the Node Configurator that completes has issued exactly
\* one `ipfs bootstrap add`, with the bootstrapMultiaddr of the record, when
\* the role is regular, and none when the role is bootstrap, whatever
\* bootstrapMultiaddr the record holds; no run issues more than one, and a
\* run for a bootstrap node never issues one.
C10_OneBootstrapAdd ==
  /\ Cardinality(Issued("ipfs bootstrap add")) <= 1
  /\ cfg.nodeType = "bootstrap" => Issued("ipfs bootstrap add") = {}
  /\ (Configured /\ cfg.nodeType = "regular") =>
        \E j \in Issued("ipfs bootstrap add") :
           /\ cmds[j].val = cfg.bootstrapMultiaddr
           /\ TruthyA(cmds[j].val)

\* a bootstrap init from the prompts after a regular one: the record still
\* holds the address of the earlier init
C10_Witness ==
  /\ Configured
  /\ cfg.nodeType = "bootstrap"
  /\ cfg.bootstrapMultiaddr = AddrPeer
  /\ Issued("ipfs bootstrap rm") # {}

\* C11: once the swarm key file exists at SWARM_KEY_PATH, no step of any
\* command changes its content; the one step that removes it is a clean
\* that was confirmed and has removed the configuration directory.
C11_KeyBytesStable ==
  [][swarmKeyFile # NoFile =>
       \/ swarmKeyFile' = swarmKeyFile
       \/ /\ swarmKeyFile' = NoFile
          /\ CleanWith("yes")
          /\ ~configDir'
          /\ res'.why = MsgCleaned]_vars

\* an init of a bootstrap node has run its key step on an installation
\* that had a key, and the key is the one it found
C11_Witness ==
  /\ pc = "exited"
  /\ res.exit = 0
  /\ \E j \in 1..Len(ran) : ran[j] = "Generating swarm key"
  /\ pre.swarmKeyFile # NoFile
  /\ swarmKeyFile = pre.swarmKeyFile

\* the commands cs hold no attempt to stop the daemon and no spawn
NoDaemonAction(cs) ==
  \A j \in 1..Len(cs) : cs[j].op \notin {"ipfs shutdown", "pkill", "spawn"}

\* C12, as stated: a start invoked while the daemon answers the probe
\* returns success, that is status 0 with the already-running report,
\* attempts no stop, spawns nothing, and leaves config.json as it was,
\* whatever the stored role and network mode.
C12_StartWhenRunning ==
  [][daemon /\ StartBegin =>
       /\ pc' = "ended"
       /\ res'.exit = 0
       /\ res'.why = MsgAlreadyRunning
       /\ NoDaemonAction(cmds')
       /\ daemon'
       /\ configThere' = configThere
       /\ configFile' = configFile]_vars

\* C12, amended: a start invoked while the daemon answers the probe ends
\* at once, attempts no stop, spawns nothing and leaves the daemon running
\* and an existing config.json as it was (without one, loadCfg writes the
\* default record); it returns status 0 with the already-running report
\* unless the stored network mode is tailscale and the client is not
\* running, when it ends with the Tailscale report instead.
C12_StartWhenRunningAmended ==
  [][daemon /\ StartBegin =>
       /\ pc' = "ended"
       /\ NoDaemonAction(cmds')
       /\ daemon'
       /\ configThere'
       /\ configFile' = (IF configThere THEN configFile ELSE JsonRecord(DefaultCfg))
       /\ IF LoadCfg.networkType = "tailscale" /\ ~tailscale.running
          THEN res'.why = MsgNoTailscale
          ELSE res'.exit = 0 /\ res'.why = MsgAlreadyRunning]_vars

\* a start has found the daemon of a regular node on Tailscale running
C12_Witness ==
  /\ pc = "ended"
  /\ res.why = MsgAlreadyRunning
  /\ daemon
  /\ cfg.nodeType = "regular"
  /\ cfg.networkType = "tailscale"

\* C13: when the stored network mode is tailscale and the Tailscale client
\* does not report itself running, start asks for the Tailscale status and
\* nothing else: no probe, no stop and no spawn follow it, and the daemon
\* and config.json are after the invocation as they were before it.
C13_OverlayBlocksStart ==
  [][(configThere /\ configFile.networkType = "tailscale"
        /\ ~tailscale.running /\ StartBegin) =>
       /\ pc' = "ended"
       /\ res'.why = MsgNoTailscale
       /\ cmds' = << StatusCmd >>
       /\ daemon' = daemon
       /\ configDir' = configDir
       /\ configThere' = configThere
       /\ configFile' = configFile]_vars

\* a start has ended on the Tailscale check while a daemon was running
C13_Witness ==
  /\ pc = "ended"
  /\ res.why = MsgNoTailscale
  /\ cfg.networkType = "tailscale"
  /\ ~tailscale.running
  /\ daemon

TimedOut ==
  /\ pc = "ended"
  /\ \E j \in 1..Len(cmds) : cmds[j].op = "spawn"
  /\ elapsed >= StartMaxWait
  /\ ~daemon

\* C15: a start whose daemon did not answer within the polling window ends
\* with status 1 and the report 'Daemon failed to start', which no other
\* outcome carries: it is not the report of the Tailscale check, whose
\* status is 0, nor the report of a failed step or of a failed spawn; and
\* nodeId and lastStarted in config.json are those the start found.
C15_TimeoutOutcome ==
  /\ MsgFailedToStart \notin {MsgNoTailscale, MsgSpawnError, MsgAlreadyRunning,
                              MsgStarted, "step", "validation"}
  /\ (TimedOut =>
        /\ res.exit = 1
        /\ res.why = MsgFailedToStart
        /\ configFile.nodeId = pre.configFile.nodeId
        /\ configFile.lastStarted = pre.configFile.lastStarted)
  /\ (pc \in {"exited", "ended"} /\ res.why = MsgFailedToStart => TimedOut)

\* a start of a node that had been started before has timed out
C15_Witness ==
  /\ TimedOut
  /\ res.why = MsgFailedToStart
  /\ pre.configFile.lastStarted # 0

\* C16, as stated: a start that spawned the daemon and found it reachable
\* has written a new lastStarted to config.json, also when the identity
\* query failed, and has written a non-empty nodeId when the query
\* succeeded.
C16_LastStartedPersisted ==
  (pc = "ended" /\ res.why = MsgStarted) =>
    /\ configFile.lastStarted # pre.configFile.lastStarted
    /\ configFile.lastStarted # 0
    /\ (res.cause # "identity" => Truthy(configFile.nodeId))

\* C17, as stated: when a stop has returned the daemon does not answer the
\* probe, whichever commands killDaemon ran; the daemon comes to answer
\* again only in a start; and a stop without a running daemon returns
\* status 0 and changes nothing.
C17_StopStops ==
  /\ [](pc = "ended" /\ res.why = MsgStopped => ~daemon)
  /\ [][~daemon /\ daemon' => pc = "start"]_vars
  /\ [][~daemon /\ Stop =>
          /\ res'.exit = 0
          /\ UNCHANGED << files, repo, programs, daemon >>]_vars

\* C18: a clean whose prompt is answered no, or with the default, issues no
\* command and leaves the daemon, the data directory, the configuration
\* directory, config.json and the swarm key as they were; a step that
\* issues a removal is a clean whose prompt was answered yes.
C18_CleanNeedsYes ==
  /\ [][(CleanWith("no") \/ CleanWith("default")) =>
          /\ cmds' = << >>
          /\ res'.why = MsgCancelled
          /\ UNCHANGED << daemon, repo, configDir, configThere, configFile,
                          swarmKeyFile >>]_vars
  /\ [][(\E j \in 1..Len(cmds') : cmds'[j].op = "rm") /\ cmds' # cmds =>
          CleanWith("yes")]_vars

\* a clean of a running, initialized installation has been cancelled
C18_Witness ==
  /\ pc = "ended"
  /\ res.why = MsgCancelled
  /\ daemon
  /\ repo.inited
  /\ swarmKeyFile # NoFile

\* the removal of the data directory is among the commands cs
DataRemovalIn(cs) == \E j \in 1..Len(cs) : cs[j] = Cmd("rm", "-rf ~/.ipfs", <<>>)

\* C19: a confirmed clean that reports completion has left neither the
\* data directory nor the configuration directory, with config.json and the
\* swarm key; one whose removal of the data directory failed reports the
\* failure and leaves the configuration directory as it was.
C19_CleanRemoves ==
  [][CleanWith("yes") =>
       /\ res'.why \in {MsgCleaned, MsgRmFailed}
       /\ (res'.why = MsgCleaned =>
             /\ repo' = NoRepo
             /\ ~configDir'
             /\ ~configThere'
             /\ swarmKeyFile' = NoFile)
       /\ (DataRemovalIn(cmds') /\ repo'.inited =>
             /\ res'.why = MsgRmFailed
             /\ UNCHANGED << configDir, configThere, configFile,
                             swarmKeyFile >>)]_vars

\* a clean has stopped the running daemon and removed both directories
C19_Witness ==
  /\ pc = "ended"
  /\ res.why = MsgCleaned
  /\ Len(cmds) = 3
  /\ cmds[1].op = "ipfs shutdown"
  /\ DataRemovalIn(cmds)
  /\ ~repo.inited
  /\ ~configDir
  /\ ~daemon

\* the reports with which a start ends
StartReports ==
  {MsgNoTailscale, MsgAlreadyRunning, MsgFailedToStart, MsgStarted,
   MsgSpawnError}

\* C20, as stated: an init or a start that a fatal failure ended (a
\* validation error, a failed step, a failed spawn, the Tailscale client
\* not running, the polling window over) has a non-zero exit status; an
\* init has status 0 only with all its steps completed, a start only with
\* the daemon answering.
C20_ExitStatus ==
  /\ (pc = "exited" /\ res.why \in {"validation", "step"} => res.exit # 0)
  /\ (pc = "exited" /\ res.exit = 0 => ran = steps)
  /\ (pc = "ended" /\ res.why \in {MsgNoTailscale, MsgFailedToStart, MsgSpawnError}
        => res.exit # 0)
  /\ (pc = "ended" /\ res.why \in StartReports /\ res.exit = 0 => daemon)

\* a basePort value that is an integer from 1025 to 65534
PortInRange(v) == v.t = "num" /\ v.n \in 1025..65534

\* C21, as stated: the basePort in config.json is always an integer from
\* 1025 to 65534, and so is the base port of every init that issues the
\* address settings, from --port as well as from the prompt.
C21_PortInRange ==
  /\ (configThere => PortInRange(configFile.basePort))
  /\ (\A j \in Issued("ipfs config") :
        cmds[j].key = "Addresses.Swarm" => PortInRange(cfg.basePort))

\* C22: config.json holds a nodeId only when a start has found the daemon
\* reachable since the file was created: without the file there is none,
\* and the one step that writes a nodeId is the step of a start in which
\* the daemon answers the probe; no step of init, stop, status, info or
\* test writes one.
C22_NodeIdOnlyFromStart ==
  /\ [](~configThere => ~Truthy(configFile.nodeId))
  /\ [][configFile'.nodeId # configFile.nodeId /\ Truthy(configFile'.nodeId) =>
          /\ pc = "start"
          /\ daemon'
          /\ res'.why = MsgStarted]_vars

\* an init has succeeded on a record that holds the nodeId of a start
C22_Witness ==
  /\ pc = "exited"
  /\ res.exit = 0
  /\ pre.configFile.nodeId = PeerIdent
  /\ configFile.nodeId = PeerIdent

\* C23, as stated: config.json holds a Tailscale address only when its
\* networkType is tailscale; a record whose networkType is normal, also one
\* that an init has switched from tailscale to normal, holds none.
C23_OverlayAddressOnlyInOverlayMode ==
  configThere /\ configFile.networkType # "tailscale" =>
    ~Truthy(configFile.tailscaleIP)

\* C24, as stated: an init given --port 5001 and no role flag that succeeds
\* has saved basePort 5001 and has set the swarm addresses to port 5001,
\* the API address to port 6001 and the gateway address to port 9081.
C24_PortOptionAlone ==
  Succeeded /\ Interactive(inv.opts) /\ inv.opts.port = PortOther =>
    /\ configFile.basePort = ParseInt(inv.opts.port)
    /\ \A j \in Issued("ipfs config") :
         /\ cmds[j].key = "Addresses.Swarm" =>
              cmds[j].val = <<"[\"/ip4/0.0.0.0/tcp/">> \o PortOther
                              \o <<"\",\"/ip6/::/tcp/">> \o PortOther
                              \o <<"\"]">>
         /\ cmds[j].key = "Addresses.API" =>
              cmds[j].val = <<"/ip4/127.0.0.1/tcp/">> \o NatText(6001)
         /\ cmds[j].key = "Addresses.Gateway" =>
              cmds[j].val = <<"/ip4/127.0.0.1/tcp/">> \o NatText(9081)

\* C25, as stated: an init for the tailscale network brings Tailscale up
\* before it stops a running daemon and before it initializes the data
\* directory, and an init that fails in the Tailscale step has issued no
\* `ipfs shutdown`, no `pkill` and no `ipfs init`.
C25_OverlayBeforeDaemonStop ==
  pc \in {"init", "exited"} =>
    /\ \A j \in Issued("tailscale status") :
         \A k \in Issued("ipfs shutdown") \cup Issued("ipfs init") : j < k
    /\ (pc = "exited" /\ res.exit = 1 /\ res.step = "Setting up Tailscale" =>
          /\ Issued("ipfs shutdown") = {}
          /\ Issued("pkill") = {}
          /\ Issued("ipfs init") = {})

\* C26, as stated: killDaemon runs `pkill` only right after an
\* `ipfs shutdown` of its own, and every killDaemon waits out the settle
\* delay before it returns, after a shutdown that succeeded as well as
\* after the pkill.
C26_SettleDelayAlways ==
  /\ \A k \in Issued("pkill") : k > 1 /\ cmds[k - 1].op = "ipfs shutdown"
  /\ \A j \in Issued("ipfs shutdown") :
       \E k \in (j + 1)..Len(cmds) :
          /\ cmds[k] = SettleDelay
          /\ \A m \in (j + 1)..(k - 1) : cmds[m].op = "pkill"

\* the fields of config.json that init owns, and those that start owns
InitFields(c) ==
  << c.nodeType, c.networkType, c.basePort, c.swarmKeyPath, c.bootstrapMultiaddr >>
StartFields(c) == << c.nodeId, c.lastStarted >>

\* what init and start leave alone in config.json: no step of init changes
\* nodeId or lastStarted, no step of start changes the role, the network
\* type, the base port, the key path or the bootstrap address, and stop
\* touches nothing in the configuration directory
OwnFieldsOnly ==
  /\ (LifeInit \/ pc = "init") =>
       StartFields(configFile') = StartFields(LoadCfg)
  /\ (StartBegin \/ pc = "start") =>
       InitFields(configFile') = InitFields(LoadCfg)
  /\ Stop => UNCHANGED << configDir, configThere, configFile >>

\* C27, as stated: init changes neither nodeId nor lastStarted, start
\* changes none of the fields of init, and stop, status, info and test
\* leave the configuration directory exactly as they found it.
C27_StoreWriters ==
  [][/\ OwnFieldsOnly
     /\ (Status \/ Info \/ Test) =>
          UNCHANGED << configDir, configThere, configFile >>]_vars

\* C27, amended: init changes neither nodeId nor lastStarted, start changes
\* none of the fields of init, stop leaves the configuration directory as
\* it found it, and status, info and test leave a config.json that exists
\* as it is and write the default record when there is none.
C27_StoreWritersAmended ==
  [][/\ OwnFieldsOnly
     /\ (Status \/ Info \/ Test) =>
          /\ configDir'
          /\ configThere'
          /\ configFile' = LoadCfg]_vars

\* status has run on the record of a regular node that a start has stamped
C27_Witness ==
  /\ pc = "ended"
  /\ res.why = MsgRunning
  /\ pre = NoSnapshot
  /\ configFile.nodeType = "regular"
  /\ configFile.nodeId = PeerIdent

\* C28, as stated: a start on a machine without config.json spawns no
\* daemon and leaves the machine without config.json.
C28_StartUninitialized ==
  [][~configThere /\ StartBegin =>
       /\ ~configThere'
       /\ \A j \in 1..Len(cmds') : cmds'[j].op # "spawn"]_vars

\* C29, as stated: a status run while config.json says tailscale and the
\* Tailscale client is not connected looks at the client and reports it,
\* whether the daemon answers the probe or not.
C29_StatusReportsDegraded ==
  [][/\ configThere
     /\ configFile.networkType = "tailscale"
     /\ ~tailscale.running
     /\ Status
     => \E j \in 1..Len(cmds') : cmds'[j] = StatusCmd]_vars

(***************************************************************************)
(* Two invocations at once.  Each command is a process of its own with its *)
(* own in-memory record; the files, the data directory, the installed      *)
(* programs and the daemon are shared.  The scheduler takes the running    *)
(* process off between two of its steps and lets the other one go on.      *)
(***************************************************************************)
Switch ==
  /\ other # Process
  /\ other' = Process
  /\ pc' = other.pc
  /\ inv' = other.inv
  /\ cfg' = other.cfg
  /\ steps' = other.steps
  /\ idx' = other.idx
  /\ res' = other.res
  /\ cmds' = other.cmds
  /\ ran' = other.ran
  /\ pre' = other.pre
  /\ chain' = other.chain
  /\ elapsed' = other.elapsed
  /\ UNCHANGED << files, repo, programs, daemon, failures >>

RaceNext ==
  \/ LifeInit
  \/ StepInstallTools
  \/ StepInstallKubo
  \/ StepStopDaemon
  \/ StepInitializeIpfs
  \/ StepSetupTailscale
  \/ StepGenerateKey
  \/ StepSetKey
  \/ StepTestConnection
  \/ StepConfigureIpfs
  \/ StartBegin
  \/ StartProbe
  \/ StartTimeout
  \/ Switch

RaceSpec == Init /\ [][RaceNext]_vars

\* both invocations are over
BothFinished ==
  /\ pc \in {"exited", "ended"}
  /\ other.pc \in {"exited", "ended"}

\* C30: with two invocations at once, every step that changes config.json
\* writes the whole in-memory record of the process that takes the step,
\* whatever the file held (or the default record of loadCfg when there was
\* no file); so when both are over the file is the in-memory record of one
\* of the two, or the default record when neither saved, and nothing of
\* what the other one saved in between is merged in.
C30_LastWriterWins ==
  /\ [](BothFinished =>
          configFile \in { JsonRecord(cfg), JsonRecord(other.cfg),
                           JsonRecord(DefaultCfg) })
  /\ [][configFile' # configFile =>
          \/ configFile' = JsonRecord(cfg')
          \/ ~configThere /\ configFile' = JsonRecord(DefaultCfg)]_vars

\* an init has succeeded with its swarm key saved, and a start that loaded
\* the record before that has saved after it: the key is gone from the file
C30_Witness ==
  /\ pc = "ended"
  /\ res.why = MsgStarted
  /\ other.pc = "exited"
  /\ other.res.exit = 0
  /\ Truthy(other.cfg.swarmKey)
  /\ configFile = JsonRecord(cfg)
  /\ ~Truthy(configFile.swarmKey)

=============================================================================
